---- MODULE Spec2Model ----
(***************************************************************************)
(* A model of the tsunami simulation engine (src/src/simulation/Engine.ts) *)
(* and of the host hook that drives it (src/unnamed/part_002).             *)
(*                                                                         *)
(* Numbers.  The engine computes in floating point; the model keeps every  *)
(* quantity the claims read in exact integer arithmetic:                    *)
(*   - times are milliseconds, always multiples of TimeQuantum;            *)
(*   - positions and person speeds are whole world units (units/second);   *)
(*   - magnitude is kept in tenths (70 is magnitude 7.0);                  *)
(*   - building health is kept in units of 1/HealthScale;                  *)
(*   - debris height and vertical velocity are kept in thousandths;        *)
(*   - water levels are kept in units of 1/LevelScale, at the sample       *)
(*     positions of SampleXs.                                              *)
(* Every Math.random() draw of a tick is an input of the Update action,    *)
(* chosen with \E from a small set.  Fields that only the renderer reads   *)
(* (colours, run frames, shake intensity, wave scalars, horizontal debris  *)
(* motion, particle positions) are left out.                               *)
(***************************************************************************)
EXTENDS Integers, Sequences, FiniteSets, TLC

VARIABLES
    phase,        \* SimulationState.phase
    time,         \* SimulationState.time (ms)
    phaseTime,    \* SimulationState.phaseTime (ms)
    speed,        \* SimulationState.speed
    paused,       \* SimulationState.paused
    magnitude,    \* SimulationState.magnitude, in tenths
    camera,       \* SimulationState.camera: [x, y, zoom], zoom in hundredths
    earthquake,   \* SimulationState.earthquake: [magnitude, active]
    towns,        \* SimulationState.towns
    waterLevels,  \* SimulationState.waterLevels, levels in units of 1/LevelScale
    buildings,    \* SimulationState.buildings
    vehicles,     \* SimulationState.vehicles
    people,       \* SimulationState.people
    debris,       \* SimulationState.debris
    particles,    \* SimulationState.particles
    currentFact,  \* SimulationState.currentFact
    stats,        \* SimulationState.stats
    lastTimeRef,  \* useSimulation's lastTimeRef.current, held as the time (ms) from it
                  \* to the timestamp of the latest frame: timestamps enter update
                  \* only through their difference
    stalls        \* updateSimulation calls of this run that moved the clock by less than
                  \* the life of a particle, or not at all

vars == <<phase, time, phaseTime, speed, paused, magnitude, camera, earthquake,
          towns, waterLevels, buildings, vehicles, people, debris, particles, currentFact,
          stats, lastTimeRef, stalls>>

----------------------------------------------------------------------------
(* Bounds of the model *)

\* simulated time (ms) explored per generated world
MaxTime == 120000

\* updateSimulation calls per generated world that do not advance the clock
\* (elapsed time 0, or a paused state)
MaxStalls == 1

\* elapsedTime arguments (ms) handed to updateSimulation by the host
DeltaTimes == {0, 4000}

\* elapsedTime arguments (ms) after the frame scheduler stalled
SpikeTimes == {4000, 32000}

\* elapsedTime arguments (ms) of the fixed-frame scenario
ScenarioDeltas == {1000}

\* speed multipliers the host sets
Speeds == {1, 2}

\* magnitudes (tenths) the host sets
Magnitudes == {70, 90}

----------------------------------------------------------------------------
(* Program constants *)

TimeQuantum == 500
HealthScale == 24

\* DEFAULT_WORLD_CONFIG
townStartX == 2800
townEndX == 4000
groundLevel == 600

coastStartX == 2400
coastEndX == 2800
seaLevel == 600

\* createInitialState: earthquake.epicenterX
epicenterX == 800

LevelScale == 10

\* the water-level samples the model follows, of those createWaterLevels
\* places every 20 units from oceanStartX to townEndX
SampleXs == <<0, 1000, 2000, 3000, 4000>>

\* the safe threshold is townEndX - SafeMargin
SafeMargin == 100

\* createTowns: numSettlements = randomInt(1, 4)
MaxSettlements == 4

\* debris created per destroyed building
DebrisPerBuilding == 5

\* particle lifetimes (ms)
SprayLife == 1000
SplashLife == 800

\* sprays pushed by every waveBreaking tick
BreakingSprays == 3

Phases == <<"idle", "earthquake", "waveFormation", "waveTravel", "waveShoaling",
            "waveBreaking", "inundation", "recession", "aftermath">>

PhaseSet == {Phases[i] : i \in 1..Len(Phases)}

\* the phases whose PHASE_DURATIONS entry is Infinity
InfinitePhases == {"idle", "aftermath"}

PHASE_DURATIONS ==
    [earthquake |-> 8000, waveFormation |-> 6000, waveTravel |-> 12000,
     waveShoaling |-> 8000, waveBreaking |-> 6000, inundation |-> 15000,
     recession |-> 12000]

\* number of facts tsunamiFacts holds per phase (none for idle and recession)
FactCount ==
    [idle |-> 0, earthquake |-> 2, waveFormation |-> 2, waveTravel |-> 2,
     waveShoaling |-> 2, waveBreaking |-> 2, inundation |-> 2,
     recession |-> 0, aftermath |-> 2]

NoFact == [phase |-> "none", idx |-> 0]

\* getRandomFactForPhase(phase)?.text || null, with draw d of Math.random()
getRandomFactForPhase(p, d) ==
    IF FactCount[p] = 0 THEN NoFact ELSE [phase |-> p, idx |-> d % FactCount[p]]

FactDraws(p) == IF FactCount[p] = 0 THEN {0} ELSE 0..(FactCount[p] - 1)

----------------------------------------------------------------------------
(* Helpers *)

Min(a, b) == IF a < b THEN a ELSE b

RECURSIVE SeqSum(_)
SeqSum(s) == IF s = <<>> THEN 0 ELSE Head(s) + SeqSum(Tail(s))

\* the number of TRUE entries of a sequence of flags
Count(flags) == Cardinality({i \in 1..Len(flags) : flags[i]})

PhaseIndex(p) == CHOOSE i \in 1..Len(Phases) : Phases[i] = p

\* mutant: the index advanced by two
getNextPhase_skip(current) == Phases[Min(PhaseIndex(current) + 2, Len(Phases))]

\* getNextPhase: the successor in the fixed order, clamped at the last
getNextPhase(current) == Phases[Min(PhaseIndex(current) + 1, Len(Phases))]

\* person.id.startsWith(prefix), ids being [prefix, n, sub]
IsDoomed(p) == p.id.prefix = "person-doomed"
IsAtRisk(p) == p.id.prefix = "person-atrisk"

\* mutant: the guard forgets the survived flag
Unresolved_ignoreSurvived(p) == ~p.caught

\* mutant: the guard with its first negation lost
Unresolved_typo(p) == p.caught /\ ~p.survived

\* the guard !person.caught && !person.survived of the three resolution loops
Unresolved(p) == ~p.caught /\ ~p.survived

----------------------------------------------------------------------------
(* World generation, for the draws listed here *)

\* a draw kept inside the range [lo, hi] that randomRange is called with
within(v, lo, hi) == IF v < lo THEN lo ELSE IF v > hi THEN hi ELSE v

\* createTowns draws: numSettlements and, per loop round, the Math.random() of
\* the roll (hundredths), the width and population drawn for the class the roll
\* selects, and the gap to the next settlement
TownDraws ==
    {[num |-> 1,
      rounds |-> << [rand |-> 10,
                     width |-> [village |-> 200, town |-> 300, city |-> 450],
                     population |-> [village |-> 100, town |-> 400, city |-> 1000],
                     gap |-> 70] >>]}

\* roll = Math.random() + distanceRatio * 0.3 against 0.35 and 0.7, with
\* distanceRatio = (currentX - townStartX) / totalWidth
townType(rand, currentX) ==
    LET roll == rand * (townEndX - townStartX) + 30 * (currentX - townStartX)
    IN IF roll < 35 * (townEndX - townStartX) THEN "village"
       ELSE IF roll < 70 * (townEndX - townStartX) THEN "town"
       ELSE "city"

\* mutant: the width is not clamped to the room that is left
RECURSIVE settle_unclamped(_, _, _)
settle_unclamped(d, i, currentX) ==
    IF i >= d.num THEN <<>>
    ELSE LET g == d.rounds[i + 1]
             type == townType(g.rand, currentX)
             width == g.width[type]
             next == currentX + width + g.gap
         IN IF width < 100 THEN <<>>
            ELSE << [id |-> i, x |-> currentX, width |-> width,
                     population |-> g.population[type], type |-> type] >>
                 \o (IF next >= townEndX - 100 THEN <<>>
                     ELSE settle_unclamped(d, i + 1, next))

\* the loop of createTowns from round i on, currentX being its cursor
RECURSIVE settle(_, _, _)
settle(d, i, currentX) ==
    IF i >= d.num THEN <<>>
    ELSE LET g == d.rounds[i + 1]
             type == townType(g.rand, currentX)
             width == Min(g.width[type], townEndX - currentX - 50)
             next == currentX + width + g.gap
         IN IF width < 100 THEN <<>>
            ELSE << [id |-> i, x |-> currentX, width |-> width,
                     population |-> g.population[type], type |-> type] >>
                 \o (IF next >= townEndX - 100 THEN <<>> ELSE settle(d, i + 1, next))

createTowns(d) == settle(d, 0, townStartX + 30)

\* createBuildings draws, per settlement class: (width, height) of the
\* buildings of a settlement and the gap after each, used in turn
BuildingDraws ==
    {[village |-> << [width |-> 40, height |-> 50, gap |-> 100],
                     [width |-> 60, height |-> 80, gap |-> 100] >>,
      town |-> << [width |-> 50, height |-> 70, gap |-> 80] >>,
      city |-> << [width |-> 60, height |-> 100, gap |-> 50],
                  [width |-> 90, height |-> 150, gap |-> 50] >>]}

\* the while loop of createBuildings for one settlement: k buildings are
\* placed, x is the cursor, id the running building id
RECURSIVE packBuildings(_, _, _, _, _)
packBuildings(town, x, draws, k, id) ==
    IF ~(x < town.x + town.width - 30) THEN <<>>
    ELSE LET d == draws[(k % Len(draws)) + 1]
             health == (d.width * d.height * HealthScale) \div 50
         IN <<[id |-> id, x |-> x, width |-> d.width, height |-> d.height,
               health |-> health, maxHealth |-> health, destroyed |-> FALSE]>>
            \o packBuildings(town, x + d.width + d.gap, draws, k + 1, id + 1)

\* towns.forEach of createBuildings, from settlement ti on
RECURSIVE buildTowns(_, _, _, _)
buildTowns(ts, ti, draws, id) ==
    IF ti > Len(ts) THEN <<>>
    ELSE LET bs == packBuildings(ts[ti], ts[ti].x + 20,
                                 draws[ts[ti].type], 0, id)
         IN bs \o buildTowns(ts, ti + 1, draws, id + Len(bs))

createBuildings(ts, draws) == buildTowns(ts, 1, draws, 0)

\* createVehicles draws, per settlement class: one entry per vehicle
\* (village 1-4, town 3-7, city 6-12 vehicles)
VehicleDraws ==
    {[village |-> << [dx |-> 70, occupants |-> 2] >>,
      town |-> << [dx |-> 30, occupants |-> 1], [dx |-> 100, occupants |-> 4],
                  [dx |-> 180, occupants |-> 2] >>,
      city |-> << [dx |-> 30, occupants |-> 1], [dx |-> 90, occupants |-> 2],
                  [dx |-> 150, occupants |-> 3], [dx |-> 210, occupants |-> 4],
                  [dx |-> 270, occupants |-> 1], [dx |-> 290, occupants |-> 2] >>]}

\* towns.forEach of createVehicles, from settlement ti on
RECURSIVE parkTowns(_, _, _, _)
parkTowns(ts, ti, draws, id) ==
    IF ti > Len(ts) THEN <<>>
    ELSE LET town == ts[ti]
             ds == draws[town.type]
         IN [i \in 1..Len(ds) |->
                [id |-> id + i - 1,
                 x |-> within(town.x + ds[i].dx, town.x + 20, town.x + town.width - 50),
                 y |-> groundLevel,
                 occupants |-> ds[i].occupants,
                 evacuated |-> FALSE, destroyed |-> FALSE]]
            \o parkTowns(ts, ti + 1, draws, id + Len(ds))

createVehicles(ts, draws) == parkTowns(ts, 1, draws, 0)

\* createPeople draws: the doomed of the first settlement per settlement class
\* (village 1-2, town 2-4, city 3-6), and the citizens of a settlement, used in
\* turn: position, the Math.random() < 0.3 of atRisk, and the speed drawn for
\* an at-risk and for a normal citizen
DoomedDraws ==
    {[village |-> << [dx |-> 20, speed |-> 20] >>,
      town |-> << [dx |-> 20, speed |-> 20], [dx |-> 60, speed |-> 15] >>,
      city |-> << [dx |-> 20, speed |-> 20], [dx |-> 60, speed |-> 15],
                  [dx |-> 40, speed |-> 25] >>]}
CitizenDraws == {<< [dx |-> 70, atRisk |-> TRUE, riskSpeed |-> 30, speed |-> 50],
                    [dx |-> 70, atRisk |-> FALSE, riskSpeed |-> 30, speed |-> 100],
                    [dx |-> 170, atRisk |-> FALSE, riskSpeed |-> 30, speed |-> 50] >>}

newPerson(prefix, n, sub, x, spd, fleeing) ==
    [id |-> [prefix |-> prefix, n |-> n, sub |-> sub], x |-> x, speed |-> spd,
     fleeing |-> fleeing, caught |-> FALSE, survived |-> FALSE]

\* numPeople = Math.max(3, Math.floor(town.population * scaleFactor))
numPeople(town) ==
    LET perMille == IF town.type = "city" THEN 8
                    ELSE IF town.type = "town" THEN 15 ELSE 25
        n == (town.population * perMille) \div 1000
    IN IF n < 3 THEN 3 ELSE n

\* towns.forEach of createPeople, from settlement ti on; personId is the
\* running id
RECURSIVE peopleTowns(_, _, _, _, _)
peopleTowns(ts, ti, doomed, citizens, personId) ==
    IF ti > Len(ts) THEN <<>>
    ELSE LET town == ts[ti]
             dd == IF ti = 1 THEN doomed[town.type] ELSE <<>>
             victim(i) ==
                 newPerson("person-doomed", personId + i - 1, 0,
                           town.x + dd[i].dx, dd[i].speed, FALSE)
             citizen(i) ==
                 LET c == citizens[((i - 1) % Len(citizens)) + 1]
                     personX == within(town.x + c.dx, town.x + 30,
                                       town.x + town.width - 30)
                     atRisk == personX - townStartX < 150 /\ c.atRisk
                 IN newPerson(IF atRisk THEN "person-atrisk" ELSE "person",
                              personId + Len(dd) + i - 1, 0, personX,
                              IF atRisk THEN c.riskSpeed ELSE c.speed, FALSE)
         IN [i \in 1..Len(dd) |-> victim(i)]
            \o [i \in 1..numPeople(town) |-> citizen(i)]
            \o peopleTowns(ts, ti + 1, doomed, citizens,
                           personId + Len(dd) + numPeople(town))

createPeople(ts, doomed, citizens) == peopleTowns(ts, 1, doomed, citizens, 0)

\* createWaterLevels(config), for the samples of SampleXs
createWaterLevels ==
    [i \in 1..Len(SampleXs) |->
        [x |-> SampleXs[i], baseLevel |-> seaLevel * LevelScale,
         currentLevel |-> seaLevel * LevelScale, velocity |-> 0]]

ZeroStats == [casualties |-> 0, survivors |-> 0,
              buildingsDestroyed |-> 0, vehiclesDestroyed |-> 0]

\* createInitialState(magnitude), for world draws w
createInitialState(m, w) ==
    LET towns0 == createTowns(w.towns)
    IN [phase |-> "idle", time |-> 0, phaseTime |-> 0, speed |-> 1, paused |-> FALSE,
        magnitude |-> m,
        camera |-> [x |-> 200, y |-> 100, zoom |-> 55],
        earthquake |-> [magnitude |-> m, active |-> FALSE],
        towns |-> towns0,
        waterLevels |-> createWaterLevels,
        buildings |-> createBuildings(towns0, w.buildings),
        vehicles |-> createVehicles(towns0, w.vehicles),
        people |-> createPeople(towns0, w.doomed, w.citizens),
        debris |-> <<>>, particles |-> <<>>,
        currentFact |-> NoFact, stats |-> ZeroStats]

WorldDraws ==
    [towns : TownDraws, buildings : BuildingDraws, vehicles : VehicleDraws,
     doomed : DoomedDraws, citizens : CitizenDraws]

\* mutant: the run restarts in the world of state
startSimulation_sameWorld(s, w, factDraw) ==
    [s EXCEPT
        !.phase = "earthquake", !.time = 0, !.phaseTime = 0,
        !.currentFact = getRandomFactForPhase("earthquake", factDraw)]

\* mutant: the speed and the pause of state are carried over as well
startSimulation_keepControls(s, w, factDraw) ==
    [createInitialState(s.magnitude, w) EXCEPT
        !.phase = "earthquake",
        !.camera = s.camera,
        !.speed = s.speed,
        !.paused = s.paused,
        !.currentFact = getRandomFactForPhase("earthquake", factDraw)]

\* startSimulation(state): a fresh world at state.magnitude, forced into earthquake
startSimulation(s, w, factDraw) ==
    [createInitialState(s.magnitude, w) EXCEPT
        !.phase = "earthquake",
        !.camera = s.camera,
        !.currentFact = getRandomFactForPhase("earthquake", factDraw)]

\* resetSimulation(magnitude)
resetSimulation(m, w) == createInitialState(m, w)

----------------------------------------------------------------------------
(* The per-tick handlers.  s is the working copy newState, dt the scaled    *)
(* elapsed time, r the random draws of the tick.                            *)

\* progress > num/den, progress being s.phaseTime / PHASE_DURATIONS[ph]
ProgressOver(s, ph, num, den) == s.phaseTime * den > num * PHASE_DURATIONS[ph]

\* mutant: every occupant gets the id of the first
evacuees_sameIndex(v, e) ==
    [i \in 1..v.occupants |->
        newPerson("evacuee", v.id, 0, v.x + e.dx, e.speed, TRUE)]

\* the persons evacuateVehicle pushes for vehicle v, with draw e
evacuees(v, e) ==
    [i \in 1..v.occupants |->
        newPerson("evacuee", v.id, i - 1, v.x + e.dx, e.speed, TRUE)]

\* mutant: the vehicle is not marked as evacuated
evacuateVehicle_unmarked(s, vi, e) ==
    IF s.vehicles[vi].evacuated \/ s.vehicles[vi].destroyed THEN s
    ELSE [s EXCEPT !.people = s.people \o evacuees(s.vehicles[vi], e)]

\* evacuateVehicle(vehicle, state, config), vehicle being s.vehicles[vi]
evacuateVehicle(s, vi, e) ==
    IF s.vehicles[vi].evacuated \/ s.vehicles[vi].destroyed THEN s
    ELSE [s EXCEPT !.vehicles[vi].evacuated = TRUE,
                   !.people = s.people \o evacuees(s.vehicles[vi], e)]

\* state.vehicles.forEach(v => if (!v.evacuated && chosen) evacuateVehicle(v))
RECURSIVE evacuateEach(_, _, _, _)
evacuateEach(s, vi, chosen, e) ==
    IF vi > Len(s.vehicles) THEN s
    ELSE evacuateEach(
            IF ~s.vehicles[vi].evacuated /\ vi \in chosen
            THEN evacuateVehicle(s, vi, e) ELSE s,
            vi + 1, chosen, e)

\* mutant: a fixed step per frame instead of speed x dt
updateFleeingEntities_perFrame(s, dt) ==
    [s EXCEPT !.people =
        [i \in 1..Len(s.people) |->
            IF s.people[i].fleeing /\ ~s.people[i].caught
            THEN [s.people[i] EXCEPT !.x = @ + s.people[i].speed]
            ELSE s.people[i]]]

\* updateFleeingEntities: fleeing, not caught persons advance by speed x dt
updateFleeingEntities(s, dt) ==
    [s EXCEPT !.people =
        [i \in 1..Len(s.people) |->
            IF s.people[i].fleeing /\ ~s.people[i].caught
            THEN [s.people[i] EXCEPT !.x = @ + (s.people[i].speed * dt) \div 1000]
            ELSE s.people[i]]]

createSprayParticle == [life |-> SprayLife, maxLife |-> SprayLife, type |-> "spray"]
createSplashParticle == [life |-> SplashLife, maxLife |-> SplashLife, type |-> "splash"]

\* mutant: the particles age and none is dropped
updateParticles_unfiltered(s, dt) ==
    [s EXCEPT !.particles =
        [i \in 1..Len(s.particles) |-> [s.particles[i] EXCEPT !.life = @ - dt]]]

\* updateParticles: age every particle, keep those with life > 0
updateParticles(s, dt) ==
    [s EXCEPT !.particles =
        SelectSeq([i \in 1..Len(s.particles) |->
                      [s.particles[i] EXCEPT !.life = @ - dt]],
                  LAMBDA p : p.life > 0)]

----------------------------------------------------------------------------
(* The water surface.  r.crest is the displacement a tick gives the       *)
(* samples under the wave (its envelope is a sine or an exponential of    *)
(* the progress), r.ease the value of easeOut(progress) in hundredths     *)
(* where the curve leaves it open;                                        *)
(* both are inputs of the tick.                                           *)

Abs(v) == IF v < 0 THEN 0 - v ELSE v

\* easeOut(progress) of utils/math in hundredths, for the progress of s in
\* phase p: an ease-out curve starts at 0 and reaches 1 at progress 1; in
\* between, and beyond 1, its value is the input r.ease of the tick
easeOut(s, p, r) ==
    IF s.phaseTime = 0 THEN 0
    ELSE IF s.phaseTime = PHASE_DURATIONS[p] THEN 100
    ELSE r.ease

\* lerp(a, b, t) of utils/math with t = num / den, not clamped
lerp(a, b, num, den) == a + ((b - a) * num) \div den

\* waterFront of an inundation tick: townStartX + progress x (townEndX - townStartX)
waterFront(s) ==
    townStartX + (s.phaseTime * (townEndX - townStartX)) \div PHASE_DURATIONS["inundation"]

\* the waterLevels.forEach of updateWaveFormation
formationLevels(s, r) ==
    [i \in 1..Len(s.waterLevels) |->
        LET level == s.waterLevels[i]
        IN IF Abs(level.x - epicenterX) < 300
           THEN [level EXCEPT !.currentLevel = level.baseLevel - r.crest]
           ELSE level]

\* the waterLevels.forEach of a phase whose wave stands at position and
\* lifts the samples with behind < x - position < ahead
waveLevels(s, r, position, behind, ahead) ==
    [i \in 1..Len(s.waterLevels) |->
        LET level == s.waterLevels[i]
            dist == level.x - position
        IN IF dist > behind /\ dist < ahead
           THEN [level EXCEPT !.currentLevel = level.baseLevel - r.crest]
           ELSE [level EXCEPT !.currentLevel = lerp(@, level.baseLevel, 2, 100)]]

\* updateWaveTravel: wave.position = lerp(epicenterX, coastStartX, easeOut(progress))
travelLevels(s, r) ==
    waveLevels(s, r, lerp(epicenterX, coastStartX, easeOut(s, "waveTravel", r), 100), 0 - 100, 300)

\* updateWaveShoaling: wave.position = lerp(coastStartX, coastEndX - 100, easeOut(progress))
shoalingLevels(s, r) ==
    waveLevels(s, r, lerp(coastStartX, coastEndX - 100, easeOut(s, "waveShoaling", r), 100), 0 - 50, 400)

\* updateWaveBreaking: wave.position = lerp(coastEndX - 100, townStartX, progress)
breakingLevels(s, r) ==
    waveLevels(s, r,
               lerp(coastEndX - 100, townStartX, s.phaseTime, PHASE_DURATIONS["waveBreaking"]),
               0 - 100, 200)

\* LevelScale x waterDepth of an inundation tick:
\* (30 + magnitudeScale x 70) x (1 - progress x 0.5)
waterDepth(s) ==
    ((1200 + 70 * (s.magnitude - 50))
     * ((2 * PHASE_DURATIONS["inundation"] - s.phaseTime) \div TimeQuantum)) \div 240

\* mutant: only the samples behind the water front are kept
inundationLevels_flooded(s) ==
    LET wet == SelectSeq(s.waterLevels, LAMBDA level : level.x < waterFront(s))
    IN [i \in 1..Len(wet) |->
           [wet[i] EXCEPT !.currentLevel =
               wet[i].baseLevel - Min(waterDepth(s), 3 * (waterFront(s) - wet[i].x))]]

\* the waterLevels.forEach of updateInundation
inundationLevels(s) ==
    [i \in 1..Len(s.waterLevels) |->
        LET level == s.waterLevels[i]
        IN IF level.x < waterFront(s)
           THEN [level EXCEPT !.currentLevel =
                    level.baseLevel - Min(waterDepth(s), 3 * (waterFront(s) - level.x))]
           ELSE level]

\* the waterLevels.forEach of updateRecession, with
\* currentWaterFront = townStartX + maxInundation x (1 - recessionProgress x 0.9)
\* and currentDepth = (30 + magnitudeScale x 70) x 0.5 x (1 - recessionProgress)
recessionLevels(s, r) ==
    LET ease == easeOut(s, "recession", r)
        front == townEndX - (((townEndX - townStartX) * 9 * ease) \div 1000)
        currentDepth == ((1200 + 70 * (s.magnitude - 50)) * (100 - ease)) \div 800
    IN [i \in 1..Len(s.waterLevels) |->
           LET level == s.waterLevels[i]
               depth == (Min(currentDepth, 2 * (front - level.x)) * (500 - 4 * ease)) \div 500
           IN IF level.x >= townStartX
              THEN IF level.x < front
                   THEN [level EXCEPT !.currentLevel = lerp(@, level.baseLevel - depth, 5, 100)]
                   ELSE [level EXCEPT !.currentLevel = lerp(@, level.baseLevel, 10, 100)]
              ELSE [level EXCEPT !.currentLevel = lerp(@, level.baseLevel, 2, 100)]]

\* the waterLevels.forEach of updateAftermath:
\* level.currentLevel = lerp(level.currentLevel, level.baseLevel, 0.001 * dt)
aftermathLevels(s, dt) ==
    [i \in 1..Len(s.waterLevels) |->
        [s.waterLevels[i] EXCEPT !.currentLevel =
            lerp(@, s.waterLevels[i].baseLevel, dt \div TimeQuantum, 1000 \div TimeQuantum)]]

\* mutant: the doomed are alerted like everyone else
updateEarthquake_everyone(s, dt, r) ==
    LET s1 == [s EXCEPT !.earthquake.active = TRUE]
    IN IF ProgressOver(s, "earthquake", 7, 10)
       THEN [s1 EXCEPT !.people =
                [i \in 1..Len(s.people) |->
                    IF i \in r.flee
                    THEN [s.people[i] EXCEPT !.fleeing = TRUE]
                    ELSE s.people[i]]]
       ELSE s1

updateEarthquake(s, dt, r) ==
    LET s1 == [s EXCEPT !.earthquake.active = TRUE]
    IN IF ProgressOver(s, "earthquake", 7, 10)
       THEN [s1 EXCEPT !.people =
                [i \in 1..Len(s.people) |->
                    IF ~IsDoomed(s.people[i]) /\ i \in r.flee
                    THEN [s.people[i] EXCEPT !.fleeing = TRUE]
                    ELSE s.people[i]]]
       ELSE s1

updateWaveFormation(s, dt, r) ==
    [s EXCEPT !.earthquake.active = FALSE, !.waterLevels = formationLevels(s, r)]

\* mutant: person.fleeing is assigned the outcome of the trigger
updateWaveTravel_redraw(s, dt, r) ==
    LET s1 == IF ProgressOver(s, "waveTravel", 3, 10)
              THEN evacuateEach(
                      [s EXCEPT !.people =
                          [i \in 1..Len(s.people) |->
                              IF ~IsDoomed(s.people[i])
                              THEN [s.people[i] EXCEPT !.fleeing = i \in r.flee]
                              ELSE s.people[i]]],
                      1, r.evac, r.evacuee)
              ELSE s
    IN updateFleeingEntities([s1 EXCEPT !.waterLevels = travelLevels(s, r)], dt)

\* mutant: people leave their vehicles from the first tick of waveTravel on
updateWaveTravel_atOnce(s, dt, r) ==
    LET s1 == evacuateEach(
                  IF ProgressOver(s, "waveTravel", 3, 10)
                  THEN [s EXCEPT !.people =
                           [i \in 1..Len(s.people) |->
                               IF ~s.people[i].fleeing /\ ~IsDoomed(s.people[i])
                                  /\ i \in r.flee
                               THEN [s.people[i] EXCEPT !.fleeing = TRUE]
                               ELSE s.people[i]]]
                  ELSE s,
                  1, r.evac, r.evacuee)
    IN updateFleeingEntities([s1 EXCEPT !.waterLevels = travelLevels(s, r)], dt)

updateWaveTravel(s, dt, r) ==
    LET s1 == IF ProgressOver(s, "waveTravel", 3, 10)
              THEN evacuateEach(
                      [s EXCEPT !.people =
                          [i \in 1..Len(s.people) |->
                              IF ~s.people[i].fleeing /\ ~IsDoomed(s.people[i])
                                 /\ i \in r.flee
                              THEN [s.people[i] EXCEPT !.fleeing = TRUE]
                              ELSE s.people[i]]],
                      1, r.evac, r.evacuee)
              ELSE s
    IN updateFleeingEntities([s1 EXCEPT !.waterLevels = travelLevels(s, r)], dt)

\* mutant: the remaining vehicles are left as they are
updateWaveShoaling_noEvacuation(s, dt, r) ==
    LET s1 == [s EXCEPT !.waterLevels = shoalingLevels(s, r), !.people =
                  [i \in 1..Len(s.people) |->
                      IF IsDoomed(s.people[i])
                      THEN (IF ProgressOver(s, "waveShoaling", 7, 10)
                            THEN [s.people[i] EXCEPT !.fleeing = TRUE]
                            ELSE s.people[i])
                      ELSE IF IsAtRisk(s.people[i])
                      THEN (IF ProgressOver(s, "waveShoaling", 3, 10)
                            THEN [s.people[i] EXCEPT !.fleeing = TRUE]
                            ELSE s.people[i])
                      ELSE [s.people[i] EXCEPT !.fleeing = TRUE]]]
        s3 == updateFleeingEntities(s1, dt)
    IN IF r.spray
       THEN [s3 EXCEPT !.particles = Append(@, createSprayParticle)]
       ELSE s3

\* mutant: the doomed never notice
updateWaveShoaling_doomedStay(s, dt, r) ==
    LET s1 == [s EXCEPT !.waterLevels = shoalingLevels(s, r), !.people =
                  [i \in 1..Len(s.people) |->
                      IF IsDoomed(s.people[i])
                      THEN s.people[i]
                      ELSE IF IsAtRisk(s.people[i])
                      THEN (IF ProgressOver(s, "waveShoaling", 3, 10)
                            THEN [s.people[i] EXCEPT !.fleeing = TRUE]
                            ELSE s.people[i])
                      ELSE [s.people[i] EXCEPT !.fleeing = TRUE]]]
        s2 == evacuateEach(s1, 1, 1..Len(s1.vehicles), r.evacuee)
        s3 == updateFleeingEntities(s2, dt)
    IN IF r.spray
       THEN [s3 EXCEPT !.particles = Append(@, createSprayParticle)]
       ELSE s3

\* mutant: the at-risk flee as late as the doomed
updateWaveShoaling_late(s, dt, r) ==
    LET s1 == [s EXCEPT !.waterLevels = shoalingLevels(s, r), !.people =
                  [i \in 1..Len(s.people) |->
                      IF IsDoomed(s.people[i])
                      THEN (IF ProgressOver(s, "waveShoaling", 7, 10)
                            THEN [s.people[i] EXCEPT !.fleeing = TRUE]
                            ELSE s.people[i])
                      ELSE IF IsAtRisk(s.people[i])
                      THEN (IF ProgressOver(s, "waveShoaling", 7, 10)
                            THEN [s.people[i] EXCEPT !.fleeing = TRUE]
                            ELSE s.people[i])
                      ELSE [s.people[i] EXCEPT !.fleeing = TRUE]]]
        s2 == evacuateEach(s1, 1, 1..Len(s1.vehicles), r.evacuee)
        s3 == updateFleeingEntities(s2, dt)
    IN IF r.spray
       THEN [s3 EXCEPT !.particles = Append(@, createSprayParticle)]
       ELSE s3

updateWaveShoaling(s, dt, r) ==
    LET s1 == [s EXCEPT !.waterLevels = shoalingLevels(s, r), !.people =
                  [i \in 1..Len(s.people) |->
                      IF IsDoomed(s.people[i])
                      THEN (IF ProgressOver(s, "waveShoaling", 7, 10)
                            THEN [s.people[i] EXCEPT !.fleeing = TRUE]
                            ELSE s.people[i])
                      ELSE IF IsAtRisk(s.people[i])
                      THEN (IF ProgressOver(s, "waveShoaling", 3, 10)
                            THEN [s.people[i] EXCEPT !.fleeing = TRUE]
                            ELSE s.people[i])
                      ELSE [s.people[i] EXCEPT !.fleeing = TRUE]]]
        s2 == evacuateEach(s1, 1, 1..Len(s1.vehicles), r.evacuee)
        s3 == updateFleeingEntities(s2, dt)
    IN IF r.spray
       THEN [s3 EXCEPT !.particles = Append(@, createSprayParticle)]
       ELSE s3

updateWaveBreaking(s, dt, r) ==
    LET s1 == updateFleeingEntities([s EXCEPT !.waterLevels = breakingLevels(s, r)], dt)
    IN [s1 EXCEPT !.particles =
           @ \o [i \in 1..BreakingSprays |-> createSprayParticle]]

\* mutant: the damage without the + 0.5 of its last factor
damage_noHalf(s, dt) ==
    (((1200 + 70 * (s.magnitude - 50)) * (s.magnitude - 50)) \div 8000)
    * ((2 * 15000 - s.phaseTime) \div 500)
    * (dt \div 500)

\* HealthScale x waterDepth x (dt / 1000) x (magnitudeScale + 0.5), where
\* magnitudeScale = (magnitude - 5) / 4 and
\* waterDepth = (30 + magnitudeScale x 70) x (1 - progress x 0.5)
damage(s, dt) ==
    (((1200 + 70 * (s.magnitude - 50)) * (s.magnitude - 30)) \div 8000)
    * ((2 * PHASE_DURATIONS["inundation"] - s.phaseTime) \div TimeQuantum)
    * (dt \div TimeQuantum)

\* createDebris(building), with draw vy of its vertical velocity
createDebris(b, vy) == [y |-> (groundLevel - 10) * 1000, vy |-> vy]

\* the building loop of updateInundation, from building bi on
RECURSIVE damageBuildings(_, _, _, _)
damageBuildings(s, bi, dt, r) ==
    IF bi > Len(s.buildings) THEN s
    ELSE LET b == s.buildings[bi]
             h == b.health - damage(s, dt)
             s1 == IF ~b.destroyed /\ b.x < waterFront(s)
                   THEN IF h <= 0
                        THEN [s EXCEPT
                                !.buildings[bi].health = h,
                                !.buildings[bi].destroyed = TRUE,
                                !.stats.buildingsDestroyed = @ + 1,
                                !.debris = @ \o [i \in 1..DebrisPerBuilding |->
                                                    createDebris(b, r.debrisVy)]]
                        ELSE [s EXCEPT !.buildings[bi].health = h]
                   ELSE s
         IN damageBuildings(s1, bi + 1, dt, r)

\* mutant: the water carries a destroyed vehicle along to its front
RECURSIVE destroyVehicles_swept(_, _)
destroyVehicles_swept(s, vi) ==
    IF vi > Len(s.vehicles) THEN s
    ELSE destroyVehicles_swept(
            IF ~s.vehicles[vi].destroyed /\ s.vehicles[vi].x < waterFront(s)
            THEN [s EXCEPT !.vehicles[vi].destroyed = TRUE,
                           !.vehicles[vi].x = waterFront(s),
                           !.stats.vehiclesDestroyed = @ + 1]
            ELSE s,
            vi + 1)

\* mutant: a vehicle whose occupants have left is spared
RECURSIVE destroyVehicles_occupied(_, _)
destroyVehicles_occupied(s, vi) ==
    IF vi > Len(s.vehicles) THEN s
    ELSE destroyVehicles_occupied(
            IF ~s.vehicles[vi].destroyed /\ ~s.vehicles[vi].evacuated
               /\ s.vehicles[vi].x < waterFront(s)
            THEN [s EXCEPT !.vehicles[vi].destroyed = TRUE,
                           !.stats.vehiclesDestroyed = @ + 1]
            ELSE s,
            vi + 1)

\* mutant: the loop without its !vehicle.destroyed guard
RECURSIVE destroyVehicles_recount(_, _)
destroyVehicles_recount(s, vi) ==
    IF vi > Len(s.vehicles) THEN s
    ELSE destroyVehicles_recount(
            IF s.vehicles[vi].x < waterFront(s)
            THEN [s EXCEPT !.vehicles[vi].destroyed = TRUE,
                           !.stats.vehiclesDestroyed = @ + 1]
            ELSE s,
            vi + 1)

\* the vehicle loop of updateInundation
RECURSIVE destroyVehicles(_, _)
destroyVehicles(s, vi) ==
    IF vi > Len(s.vehicles) THEN s
    ELSE destroyVehicles(
            IF ~s.vehicles[vi].destroyed /\ s.vehicles[vi].x < waterFront(s)
            THEN [s EXCEPT !.vehicles[vi].destroyed = TRUE,
                           !.stats.vehiclesDestroyed = @ + 1]
            ELSE s,
            vi + 1)

\* mutant: the safe threshold is tested before the water front
RECURSIVE resolveInundation_safeFirst(_, _)
resolveInundation_safeFirst(s, pi) ==
    IF pi > Len(s.people) THEN s
    ELSE resolveInundation_safeFirst(
            IF Unresolved(s.people[pi])
            THEN IF s.people[pi].x > townEndX - SafeMargin
                 THEN [s EXCEPT !.people[pi].survived = TRUE,
                                !.stats.survivors = @ + 1]
                 ELSE IF s.people[pi].x < waterFront(s)
                 THEN [s EXCEPT !.people[pi].caught = TRUE,
                                !.stats.casualties = @ + 1]
                 ELSE s
            ELSE s,
            pi + 1)

\* mutant: the people loop without its survived branch
RECURSIVE resolveInundation_caughtOnly(_, _)
resolveInundation_caughtOnly(s, pi) ==
    IF pi > Len(s.people) THEN s
    ELSE resolveInundation_caughtOnly(
            IF Unresolved(s.people[pi]) /\ s.people[pi].x < waterFront(s)
            THEN [s EXCEPT !.people[pi].caught = TRUE,
                           !.stats.casualties = @ + 1]
            ELSE s,
            pi + 1)

\* mutant: the caught branch without stats.casualties++
RECURSIVE resolveInundation_uncounted(_, _)
resolveInundation_uncounted(s, pi) ==
    IF pi > Len(s.people) THEN s
    ELSE resolveInundation_uncounted(
            IF Unresolved(s.people[pi])
            THEN IF s.people[pi].x < waterFront(s)
                 THEN [s EXCEPT !.people[pi].caught = TRUE]
                 ELSE IF s.people[pi].x > townEndX - SafeMargin
                 THEN [s EXCEPT !.people[pi].survived = TRUE,
                                !.stats.survivors = @ + 1]
                 ELSE s
            ELSE s,
            pi + 1)

\* the people loop of updateInundation
RECURSIVE resolveInundation(_, _)
resolveInundation(s, pi) ==
    IF pi > Len(s.people) THEN s
    ELSE resolveInundation(
            IF Unresolved(s.people[pi])
            THEN IF s.people[pi].x < waterFront(s)
                 THEN [s EXCEPT !.people[pi].caught = TRUE,
                                !.stats.casualties = @ + 1]
                 ELSE IF s.people[pi].x > townEndX - SafeMargin
                 THEN [s EXCEPT !.people[pi].survived = TRUE,
                                !.stats.survivors = @ + 1]
                 ELSE s
            ELSE s,
            pi + 1)

updateInundation(s, dt, r) ==
    LET s1 == damageBuildings([s EXCEPT !.waterLevels = inundationLevels(s)], 1, dt, r)
        s2 == destroyVehicles(s1, 1)
        s3 == resolveInundation(s2, 1)
        s4 == updateFleeingEntities(s3, dt)
    IN IF r.spray
       THEN [s4 EXCEPT !.particles = Append(@, createSplashParticle)]
       ELSE s4

\* the people loop of updateRecession.  pi \in r.backwash stands for
\* person.x < currentWaterFront && Math.random() < 0.002: the front is eased
\* by easeOut of utils/math, so the comparison is left open.
RECURSIVE resolveRecession(_, _, _)
resolveRecession(s, pi, r) ==
    IF pi > Len(s.people) THEN s
    ELSE resolveRecession(
            IF Unresolved(s.people[pi])
            THEN IF pi \in r.backwash /\ s.people[pi].x > townStartX
                 THEN [s EXCEPT !.people[pi].caught = TRUE,
                                !.stats.casualties = @ + 1]
                 ELSE IF s.people[pi].x > townEndX - SafeMargin
                 THEN [s EXCEPT !.people[pi].survived = TRUE,
                                !.stats.survivors = @ + 1]
                 ELSE s
            ELSE s,
            pi + 1, r)

updateRecession(s, dt, r) ==
    LET s1 == resolveRecession([s EXCEPT !.waterLevels = recessionLevels(s, r)], 1, r)
        s2 == updateFleeingEntities(s1, dt)
    IN IF r.spray
       THEN [s2 EXCEPT !.particles = Append(@, createSplashParticle)]
       ELSE s2

\* the people loop of updateAftermath
RECURSIVE resolveAftermath(_, _)
resolveAftermath(s, pi) ==
    IF pi > Len(s.people) THEN s
    ELSE resolveAftermath(
            IF Unresolved(s.people[pi])
            THEN [s EXCEPT !.people[pi].survived = TRUE,
                           !.stats.survivors = @ + 1]
            ELSE s,
            pi + 1)

\* d.vy += 0.5; d.y += d.vy * (dt / 16); bounce at ground level with
\* d.vy *= -0.3 (rounded to a thousandth)
fallDebris(d, dt) ==
    LET vy == d.vy + 500
        y == d.y + (vy * dt) \div 16
    IN IF y > groundLevel * 1000
       THEN [y |-> groundLevel * 1000, vy |-> 0 - ((vy * 3) \div 10)]
       ELSE [y |-> y, vy |-> vy]

\* mutant: debris that has come to the ground is pruned
updateAftermath_pruned(s, dt, r) ==
    LET s1 == resolveAftermath([s EXCEPT !.waterLevels = aftermathLevels(s, dt)], 1)
    IN [s1 EXCEPT !.debris =
            SelectSeq([i \in 1..Len(s1.debris) |-> fallDebris(s1.debris[i], dt)],
                      LAMBDA d : d.y < groundLevel * 1000)]

updateAftermath(s, dt, r) ==
    LET s1 == resolveAftermath([s EXCEPT !.waterLevels = aftermathLevels(s, dt)], 1)
    IN [s1 EXCEPT !.debris = [i \in 1..Len(s1.debris) |-> fallDebris(s1.debris[i], dt)]]

----------------------------------------------------------------------------
(* updateSimulation *)

\* mutant: > for >=
PhaseDue_strict(s) ==
    s.phase \notin InfinitePhases /\ s.phaseTime > PHASE_DURATIONS[s.phase]

\* mutant: the endpoints given duration 0 instead of Infinity
PhaseDue_noInfinity(s) ==
    s.phaseTime >= (IF s.phase \in InfinitePhases THEN 0 ELSE PHASE_DURATIONS[s.phase])

\* mutant: recession given duration Infinity as well
PhaseDue_recessionForever(s) ==
    s.phase \notin InfinitePhases \cup {"recession"}
    /\ s.phaseTime >= PHASE_DURATIONS[s.phase]

\* state.phaseTime >= phaseDuration && phaseDuration !== Infinity
PhaseDue(s) ==
    s.phase \notin InfinitePhases /\ s.phaseTime >= PHASE_DURATIONS[s.phase]

\* mutant: the tick of a transition is credited to the new phase
advance_carry(s, dt, factDraw) ==
    IF PhaseDue(s)
    THEN [s EXCEPT !.time = @ + dt,
                   !.phaseTime = dt,
                   !.phase = getNextPhase(s.phase),
                   !.currentFact = getRandomFactForPhase(getNextPhase(s.phase), factDraw)]
    ELSE [s EXCEPT !.time = @ + dt, !.phaseTime = @ + dt]

\* the clock and phase-transition part of updateSimulation
advance(s, dt, factDraw) ==
    IF PhaseDue(s)
    THEN [s EXCEPT !.time = @ + dt,
                   !.phaseTime = 0,
                   !.phase = getNextPhase(s.phase),
                   !.currentFact = getRandomFactForPhase(getNextPhase(s.phase), factDraw)]
    ELSE [s EXCEPT !.time = @ + dt, !.phaseTime = @ + dt]

\* switch (newState.phase)
dispatch(n, dt, r) ==
    CASE n.phase = "earthquake" -> updateEarthquake(n, dt, r)
      [] n.phase = "waveFormation" -> updateWaveFormation(n, dt, r)
      [] n.phase = "waveTravel" -> updateWaveTravel(n, dt, r)
      [] n.phase = "waveShoaling" -> updateWaveShoaling(n, dt, r)
      [] n.phase = "waveBreaking" -> updateWaveBreaking(n, dt, r)
      [] n.phase = "inundation" -> updateInundation(n, dt, r)
      [] n.phase = "recession" -> updateRecession(n, dt, r)
      [] n.phase = "aftermath" -> updateAftermath(n, dt, r)
      [] OTHER -> n

\* mutant: the elapsed time not scaled by state.speed
updateSimulation_unscaled(s, deltaTime, r) ==
    IF s.paused THEN s
    ELSE updateParticles(dispatch(advance(s, deltaTime, r.fact), deltaTime, r), deltaTime)

\* mutant: no early return for a paused state
updateSimulation_ignorePause(s, deltaTime, r) ==
    LET dt == deltaTime * s.speed
    IN updateParticles(dispatch(advance(s, dt, r.fact), dt, r), dt)

updateSimulation(s, deltaTime, r) ==
    IF s.paused THEN s
    ELSE LET dt == deltaTime * s.speed
         IN updateParticles(dispatch(advance(s, dt, r.fact), dt, r), dt)

\* the parts of a state object that are held by reference: records and arrays
\* which const newState = { ...state } copies as references
contents(s) ==
    [earthquake |-> s.earthquake, buildings |-> s.buildings,
     vehicles |-> s.vehicles, people |-> s.people, debris |-> s.debris,
     stats |-> s.stats]

\* what the object handed to updateSimulation refers to once the call has
\* returned n: the handlers wrote through the references newState shares with
\* it (only particles is ever reassigned, and only on newState)
inputAfter(s, n) == IF s.paused THEN contents(s) ELSE contents(n)

----------------------------------------------------------------------------
(* The random draws of one tick *)

\* evacuateVehicle: x offset and speed of the persons it spawns
EvacueeDraws == {[dx |-> 0, speed |-> 100], [dx |-> 10, speed |-> 40]}

\* createDebris: vertical velocity (thousandths) of the debris of a building
DebrisVyDraws == {-10000, 0}

\* the persons whose Math.random() trigger fires in a tick: none of the
\* eligible ones, or all of them
FleeDraws(eligible) == {{}, eligible}

\* the indices of the TRUE entries of a sequence of flags
Indices(flags) == {i \in 1..Len(flags) : flags[i]}

\* the wave of a tick: a sea that leaves the followed samples at rest
CalmSea == {[ease |-> 100, crest |-> 0]}

\* the wave of a tick: easeOut(progress) in hundredths, and the displacement
\* of the samples under the wave in units of 1/LevelScale
RoughSea == [ease : {0, 50, 100}, crest : {0, 300}]

\* the draws that can matter in the tick that takes s by dt
TickDraws(s, dt) ==
    LET n == advance(s, dt, 0)
        alert == \/ n.phase = "earthquake" /\ ProgressOver(n, "earthquake", 7, 10)
                 \/ n.phase = "waveTravel" /\ ProgressOver(n, "waveTravel", 3, 10)
        leaving == n.phase = "waveTravel"
        waiting == Indices([i \in 1..Len(n.vehicles) |-> ~n.vehicles[i].evacuated])
    IN [fact : IF PhaseDue(s) THEN FactDraws(n.phase) ELSE {0},
        flee : IF alert
               THEN FleeDraws(Indices([i \in 1..Len(n.people) |-> ~n.people[i].fleeing]))
               ELSE {{}},
        evac : IF leaving THEN SUBSET waiting ELSE {{}},
        evacuee : IF n.phase \in {"waveTravel", "waveShoaling"} /\ waiting # {}
                  THEN EvacueeDraws ELSE {[dx |-> 0, speed |-> 100]},
        spray : IF n.phase \in {"waveShoaling", "inundation", "recession"}
                THEN BOOLEAN ELSE {FALSE},
        backwash : IF n.phase = "recession"
                   THEN SUBSET Indices([i \in 1..Len(n.people) |-> Unresolved(n.people[i])]) ELSE {{}},
        debrisVy : IF n.phase = "inundation" THEN DebrisVyDraws ELSE {0}]

----------------------------------------------------------------------------
(* The state machine *)

State ==
    [phase |-> phase, time |-> time, phaseTime |-> phaseTime, speed |-> speed,
     paused |-> paused, magnitude |-> magnitude, camera |-> camera,
     earthquake |-> earthquake,
     towns |-> towns, waterLevels |-> waterLevels,
     buildings |-> buildings, vehicles |-> vehicles, people |-> people,
     debris |-> debris, particles |-> particles, currentFact |-> currentFact,
     stats |-> stats]

Becomes(n) ==
    /\ phase' = n.phase
    /\ time' = n.time
    /\ phaseTime' = n.phaseTime
    /\ speed' = n.speed
    /\ paused' = n.paused
    /\ magnitude' = n.magnitude
    /\ camera' = n.camera
    /\ earthquake' = n.earthquake
    /\ towns' = n.towns
    /\ waterLevels' = n.waterLevels
    /\ buildings' = n.buildings
    /\ vehicles' = n.vehicles
    /\ people' = n.people
    /\ debris' = n.debris
    /\ particles' = n.particles
    /\ currentFact' = n.currentFact
    /\ stats' = n.stats

\* the variables hold state n
Holds(n) ==
    /\ phase = n.phase
    /\ time = n.time
    /\ phaseTime = n.phaseTime
    /\ speed = n.speed
    /\ paused = n.paused
    /\ magnitude = n.magnitude
    /\ camera = n.camera
    /\ earthquake = n.earthquake
    /\ towns = n.towns
    /\ waterLevels = n.waterLevels
    /\ buildings = n.buildings
    /\ vehicles = n.vehicles
    /\ people = n.people
    /\ debris = n.debris
    /\ particles = n.particles
    /\ currentFact = n.currentFact
    /\ stats = n.stats

\* lastTimeRef.current === 0: no frame has left its timestamp
NoTimestamp == -1

\* deltaTime = timestamp - lastTimeRef.current, after lastTimeRef.current has
\* been given the timestamp if it was 0; the frame comes interval ms after
\* the latest one
deltaTimeOf(last, interval) ==
    IF last = NoTimestamp THEN 0 ELSE last + interval

\* mutant: a frame that finds the state paused leaves lastTimeRef alone
recordTimestamp_unlessPaused(last, interval, isPaused) ==
    IF isPaused /\ last # NoTimestamp THEN last + interval ELSE 0

\* lastTimeRef.current = timestamp, whatever the state
recordTimestamp(last, interval, isPaused) == 0

\* useSimulation(initialMagnitude): useState(() => createInitialState(initialMagnitude)),
\* for an initial magnitude of M and world draws of W
Create(M, W) ==
    \E m \in M, w \in W :
        /\ Holds(createInitialState(m, w))
        /\ lastTimeRef = NoTimestamp
        /\ stalls = 0

Init == Create(Magnitudes, WorldDraws)

\* useSimulation.start, with world draws of W
Begin(W) ==
    \E w \in W, f \in FactDraws("earthquake") :
        /\ Becomes(startSimulation(State, w, f))
        /\ lastTimeRef' = lastTimeRef
        /\ stalls' = 0

Start == Begin(WorldDraws)

\* useSimulation.reset, with world draws of W
Rebuild(W) ==
    \E w \in W :
        /\ Becomes(resetSimulation(magnitude, w))
        /\ lastTimeRef' = NoTimestamp
        /\ stalls' = 0

Reset == Rebuild(WorldDraws)

\* useSimulation.update: one frame, setState(prev => updateSimulation(prev, deltaTime)),
\* deltaTime being one of D, whatever the timestamps that gave it,
\* and the wave of the tick one of W
Tick(D, W) ==
    \E d \in D :
        /\ IF paused \/ d * speed < SprayLife
           THEN stalls < MaxStalls /\ stalls' = stalls + 1
           ELSE stalls' = stalls
        /\ paused \/ time + d * speed <= MaxTime
        /\ \E r \in TickDraws(State, d * speed), w \in W :
              Becomes(updateSimulation(State, d, r @@ w))
        /\ lastTimeRef' = recordTimestamp(lastTimeRef, d, paused)

\* useSimulation.update: the frame that comes one of the intervals I after the
\* latest one, deltaTime being what lastTimeRef makes of its timestamp.  The
\* first frame after mount or reset has deltaTime 0 and is not a stall.
HostFrame(I) ==
    \E i \in I :
        LET deltaTime == deltaTimeOf(lastTimeRef, i)
        IN /\ IF lastTimeRef # NoTimestamp /\ (paused \/ deltaTime * speed < SprayLife)
              THEN stalls < MaxStalls /\ stalls' = stalls + 1
              ELSE stalls' = stalls
           /\ paused \/ time + deltaTime * speed <= MaxTime
           /\ \E r \in TickDraws(State, deltaTime * speed), w \in CalmSea :
                 Becomes(updateSimulation(State, deltaTime, r @@ w))
           /\ lastTimeRef' = recordTimestamp(lastTimeRef, i, paused)

Update(D) == Tick(D, CalmSea)

\* useSimulation.setSpeed; the slider is moved before the clock of a run starts
SetSpeed ==
    \E sp \in Speeds :
        /\ time = 0
        /\ sp # speed
        /\ speed' = sp
        /\ UNCHANGED <<phase, time, phaseTime, paused, magnitude, camera, earthquake,
                       towns, waterLevels, buildings, vehicles, people, debris, particles,
                       currentFact, stats, lastTimeRef, stalls>>

\* useSimulation.togglePause; the panel shows the button while a run is in progress
TogglePause ==
    /\ phase \notin InfinitePhases
    /\ paused' = ~paused
    /\ UNCHANGED <<phase, time, phaseTime, speed, magnitude, camera, earthquake,
                   towns, waterLevels, buildings, vehicles, people, debris, particles,
                   currentFact, stats, lastTimeRef, stalls>>

\* useSimulation.setMagnitude; the panel disables the slider while a run is in progress
SetMagnitude ==
    \E m \in Magnitudes :
        /\ phase \in InfinitePhases
        /\ m # magnitude
        /\ magnitude' = m
        /\ earthquake' = [earthquake EXCEPT !.magnitude = m]
        /\ UNCHANGED <<phase, time, phaseTime, speed, paused, camera,
                       towns, waterLevels, buildings, vehicles, people, debris, particles,
                       currentFact, stats, lastTimeRef, stalls>>

\* camera positions the user pans and zooms to
Cameras == {[x |-> 900, y |-> 100, zoom |-> 100]}

\* useSimulation.setCamera
SetCamera ==
    \E c \in Cameras :
        /\ c # camera
        /\ camera' = c
        /\ UNCHANGED <<phase, time, phaseTime, speed, paused, magnitude, earthquake,
                       towns, waterLevels, buildings, vehicles, people, debris, particles,
                       currentFact, stats, lastTimeRef, stalls>>

Next ==
    Start \/ Reset \/ Update(DeltaTimes) \/ SetSpeed \/ TogglePause \/ SetMagnitude

Spec == Init /\ [][Next]_vars

\* useSimulation(7.0)
InitScenario == Init /\ magnitude = 70

\* A run at magnitude 7.0 whose wave is followed over the water samples
NextWater == Begin(WorldDraws) \/ Tick(DeltaTimes \ {0}, RoughSea)

SpecWater == InitScenario /\ [][NextWater]_vars

\* A run at magnitude 7.0 over a coast of two villages, a vehicle in each
FleetTowns ==
    {[num |-> 2,
      rounds |-> << [rand |-> 10,
                     width |-> [village |-> 200, town |-> 300, city |-> 450],
                     population |-> [village |-> 100, town |-> 200, city |-> 1000],
                     gap |-> 70],
                    [rand |-> 10,
                     width |-> [village |-> 200, town |-> 300, city |-> 450],
                     population |-> [village |-> 100, town |-> 200, city |-> 1000],
                     gap |-> 70] >>]}

FleetWorlds ==
    [towns : FleetTowns, buildings : BuildingDraws, vehicles : VehicleDraws,
     doomed : DoomedDraws, citizens : CitizenDraws]

NextFleet == Begin(FleetWorlds) \/ Update(DeltaTimes \ {0})

SpecFleet == Create({70}, FleetWorlds) /\ [][NextFleet]_vars

\* The worlds of createTowns: numSettlements of 1 to MaxSettlements and, in
\* every round, a low, middle or high roll with the smallest or the largest
\* width, population and gap of each class
RoundDraws ==
    [rand : {10, 50, 90},
     width : {[village |-> 150, town |-> 250, city |-> 350]},
     population : {[village |-> 50, town |-> 200, city |-> 800]},
     gap : {40}]
    \cup
    [rand : {10, 50, 90},
     width : {[village |-> 250, town |-> 400, city |-> 550]},
     population : {[village |-> 200, town |-> 800, city |-> 3000]},
     gap : {100}]

CoastTowns ==
    UNION {{[num |-> n, rounds |-> rs] : rs \in [1..n -> RoundDraws]} :
              n \in 1..MaxSettlements}

CoastWorlds ==
    [towns : CoastTowns, buildings : BuildingDraws, vehicles : VehicleDraws,
     doomed : DoomedDraws, citizens : CitizenDraws]

\* createInitialState over every world of CoastWorlds, again and again
NextTowns == Rebuild(CoastWorlds)

SpecTowns == Create({70}, CoastWorlds) /\ [][NextTowns]_vars

\* A run at magnitude 5.0 over a coast of one town whose buildings are
\* commercial ones of the largest size and whose vehicles carry one person each
MildTowns ==
    {[num |-> 1,
      rounds |-> << [rand |-> 50,
                     width |-> [village |-> 200, town |-> 300, city |-> 450],
                     population |-> [village |-> 100, town |-> 200, city |-> 1000],
                     gap |-> 70] >>]}

MildBuildings ==
    {[village |-> << [width |-> 70, height |-> 90, gap |-> 100] >>,
      town |-> << [width |-> 90, height |-> 140, gap |-> 80] >>,
      city |-> << [width |-> 110, height |-> 200, gap |-> 50] >>]}

MildVehicles ==
    {[village |-> << [dx |-> 70, occupants |-> 1] >>,
      town |-> << [dx |-> 30, occupants |-> 1], [dx |-> 100, occupants |-> 1],
                  [dx |-> 180, occupants |-> 1] >>,
      city |-> << [dx |-> 30, occupants |-> 1], [dx |-> 90, occupants |-> 1],
                  [dx |-> 150, occupants |-> 1], [dx |-> 210, occupants |-> 1],
                  [dx |-> 270, occupants |-> 1], [dx |-> 290, occupants |-> 1] >>]}

MildWorlds ==
    [towns : MildTowns, buildings : MildBuildings, vehicles : MildVehicles,
     doomed : DoomedDraws, citizens : CitizenDraws]

NextMild == Begin(MildWorlds) \/ Update(DeltaTimes \ {0})

SpecMild == Create({50}, MildWorlds) /\ [][NextMild]_vars

\* A run at magnitude 7.0 with frames of SprayTimes: the short ones are
\* shorter than the life of a particle and counted by stalls
SprayTimes == {500, 4000}

NextSpray == Start \/ Update(SprayTimes)

SpecSpray == InitScenario /\ [][NextSpray]_vars

\* One run followed to its end: start is pressed once and the animation loop
\* keeps calling update with frames of LiveTimes, never paused, at speed 1.
\* The phases last 67000 ms and a run with these frames is in aftermath when
\* its clock shows 100000 ms, within MaxTime.
LiveTimes == DeltaTimes \ {0}

StartOnce == phase = "idle" /\ Start

NextLive == StartOnce \/ Update(LiveTimes)

\* a step of Update(LiveTimes) that moves the clock; among the steps of
\* NextLive only those of Update are steps of Frame, and Frame is enabled
\* exactly where such a step of Update is
Frame ==
    /\ ~paused
    /\ \E d \in LiveTimes :
          /\ time + d * speed <= MaxTime
          /\ time' = time + d * speed

\* requestAnimationFrame keeps the loop of update running
SpecLive == Init /\ [][NextLive]_vars /\ WF_time(Frame)

\* The host loop with its timestamps: a frame every HostIntervals ms, the
\* run started, paused, resumed and reset at will
HostIntervals == {4000}

NextHost == Start \/ Reset \/ TogglePause \/ HostFrame(HostIntervals)

SpecHost == Init /\ [][NextHost]_vars

\* The control panel: the sliders and buttons used before and during runs
\* that are started again and again
NextPanel ==
    Start \/ SetSpeed \/ TogglePause \/ SetCamera \/ Update(DeltaTimes \ {0})

SpecPanel == Init /\ [][NextPanel]_vars

\* The host loop after a stall of the frame scheduler: frames of SpikeTimes
NextSpike == Start \/ Reset \/ Update(SpikeTimes)

SpecSpike == Init /\ [][NextSpike]_vars

\* useSimulation(7.0), start, then frames of ScenarioDeltas ms
NextScenario == Start \/ Update(ScenarioDeltas)

SpecScenario == InitScenario /\ [][NextScenario]_vars

----------------------------------------------------------------------------
(* Vocabulary of the properties *)

\* the step is an updateSimulation call: only Update moves the clock forward
\* or counts a stall (Start and Reset put both back to 0, the setters keep both)
Ticked == time' > time \/ stalls' = stalls + 1

\* the step is an updateSimulation call with elapsedTime 0 on an unpaused state
ZeroTick == Ticked /\ ~paused /\ time' = time

\* the engine's part of the state
engine == <<phase, time, phaseTime, speed, paused, magnitude, camera, earthquake,
            towns, waterLevels, buildings, vehicles, people, debris, particles, currentFact, stats>>

Resolved(p) == p.caught \/ p.survived

----------------------------------------------------------------------------
(* C1 *)

\* C1: across an updateSimulation call the phase stays or moves to its
\* immediate successor in the fixed order, whatever the elapsed time.
PhaseStepsByOne ==
    [][Ticked => \/ phase' = phase
                 \/ PhaseIndex(phase') = PhaseIndex(phase) + 1]_vars

\* a 32-second frame in earthquake, then a second one: the phase is only waveFormation
PhaseStepsByOneWitness ==
    phase = "waveFormation" /\ phaseTime = 0 /\ time = 64000

----------------------------------------------------------------------------
(* C2 *)

\* C2 as claimed: started at magnitude 7.0 and ticked 8 times by 1000 ms
\* (time = 8000), the state has phase waveFormation and an inactive earthquake.
EightTicksReachFormation ==
    (phase # "idle" /\ time = 8000)
        => (phase = "waveFormation" /\ ~earthquake.active)

\* C2 amended: after 8 ticks the phase is still earthquake (phaseTime 8000,
\* earthquake active); the 9th tick yields waveFormation with an inactive
\* earthquake.
NineTicksReachFormation ==
    /\ (phase # "idle" /\ time = 8000)
          => (phase = "earthquake" /\ phaseTime = 8000 /\ earthquake.active)
    /\ (phase # "idle" /\ time = 9000)
          => (phase = "waveFormation" /\ phaseTime = 0 /\ ~earthquake.active)

NineTicksWitness ==
    phase = "waveFormation" /\ time = 9000 /\ ~earthquake.active

----------------------------------------------------------------------------
(* C3 *)

\* C3: on a tick of an unpaused state in a phase of finite duration, the phase
\* advances (to the next phase, with phaseTime 0) exactly when the state's
\* phaseTime >= duration(phase); otherwise the phase is kept and phaseTime
\* grows by elapsedTime x speed.
AdvanceExactlyWhenDue ==
    [][(Ticked /\ ~paused /\ phase \notin InfinitePhases) =>
          IF phaseTime >= PHASE_DURATIONS[phase]
          THEN /\ PhaseIndex(phase') = PhaseIndex(phase) + 1
               /\ phaseTime' = 0
          ELSE /\ phase' = phase
               /\ \E d \in DeltaTimes : phaseTime' = phaseTime + d * speed]_vars

\* waveTravel entered and ticked twice at speed 2
AdvanceWitness == phase = "waveTravel" /\ phaseTime = 16000 /\ speed = 2

----------------------------------------------------------------------------
(* C4 *)

\* C4: no updateSimulation call changes the phase of an idle or aftermath
\* state; idle is left only by startSimulation (into earthquake at time 0) and
\* aftermath only by startSimulation or resetSimulation.
EndpointsNeverAdvance ==
    [][/\ (Ticked /\ phase \in InfinitePhases) => phase' = phase
       /\ (phase = "idle" /\ phase' # "idle") =>
             (phase' = "earthquake" /\ time' = 0 /\ phaseTime' = 0 /\ ~Ticked)
       /\ (phase = "aftermath" /\ phase' # "aftermath") =>
             (phase' \in {"earthquake", "idle"} /\ time' = 0 /\ phaseTime' = 0
              /\ ~Ticked)]_vars

\* aftermath was ticked with a non-zero elapsed time and is still aftermath
EndpointsWitness == phase = "aftermath" /\ phaseTime > 0

----------------------------------------------------------------------------
(* C5 *)

\* C5: updateSimulation on a paused state returns it unchanged.
PausedIsNoOp == [][(Ticked /\ paused) => UNCHANGED engine]_vars

\* a paused run on which updateSimulation was called
PausedWitness == paused /\ stalls > 0 /\ phaseTime > 0

----------------------------------------------------------------------------
(* C6 *)

\* C6: no person is both caught and survived, and across a tick a person
\* holding one of the flags does not get the other.
CaughtSurvivedExclusive ==
    /\ [](\A i \in 1..Len(people) : ~(people[i].caught /\ people[i].survived))
    /\ [][Ticked => \A i \in 1..Len(people) :
                       /\ people[i].caught => ~people'[i].survived
                       /\ people[i].survived => ~people'[i].caught]_vars

\* the front has caught some and others have got away, evacuees among them
ExclusiveWitness ==
    /\ \E i \in 1..Len(people) : people[i].caught
    /\ \E i \in 1..Len(people) : people[i].survived
    /\ \E i \in 1..Len(people) : people[i].id.prefix = "evacuee" /\ Resolved(people[i])

----------------------------------------------------------------------------
(* C7 *)

\* C7: stats.casualties is the number of caught persons and stats.survivors
\* the number of survived persons.
PersonCountersMatch ==
    /\ stats.casualties = Count([i \in 1..Len(people) |-> people[i].caught])
    /\ stats.survivors = Count([i \in 1..Len(people) |-> people[i].survived])

PersonCountersWitness == stats.casualties >= 2 /\ stats.survivors >= 2

----------------------------------------------------------------------------
(* C8 *)

\* C8: stats.buildingsDestroyed is the number of destroyed buildings and
\* stats.vehiclesDestroyed the number of destroyed vehicles.
DestroyedCountersMatch ==
    /\ stats.buildingsDestroyed = Count([i \in 1..Len(buildings) |-> buildings[i].destroyed])
    /\ stats.vehiclesDestroyed = Count([i \in 1..Len(vehicles) |-> vehicles[i].destroyed])

\* destroyed entities, and a later tick that met them again
DestroyedCountersWitness ==
    /\ stats.buildingsDestroyed >= 2 /\ stats.vehiclesDestroyed >= 1
    /\ phase = "recession"

----------------------------------------------------------------------------
(* C9 *)

\* C9: in a state of phase aftermath every person is caught or survived.
AftermathAllResolved ==
    phase = "aftermath" => \A i \in 1..Len(people) : Resolved(people[i])

\* the tick that enters aftermath
AftermathWitness ==
    phase = "aftermath" /\ phaseTime = 0 /\ Len(people) > 4

----------------------------------------------------------------------------
(* C10 *)

\* C10 as claimed: a tick with elapsedTime 0 on an unpaused state keeps phase,
\* phaseTime, fleeing flags, vehicle evacuation, the number of persons, the
\* number of particles and the debris velocities.
ZeroTickChangesNothing ==
    [][ZeroTick =>
          /\ phase' = phase /\ phaseTime' = phaseTime
          /\ Len(people') = Len(people)
          /\ \A i \in 1..Len(people) : people'[i].fleeing = people[i].fleeing
          /\ \A i \in 1..Len(vehicles) : vehicles'[i].evacuated = vehicles[i].evacuated
          /\ Len(particles') = Len(particles)
          /\ debris' = debris]_vars

\* C10 amended: a tick with elapsedTime 0 on an unpaused state keeps time,
\* every person's position, every building; it keeps phase and phaseTime
\* unless phaseTime >= duration(phase), and it keeps the whole state in idle.
ZeroTickKeepsClockAndPlaces ==
    [][ZeroTick =>
          /\ time' = time
          /\ Len(people') >= Len(people)
          /\ \A i \in 1..Len(people) : people'[i].x = people[i].x
          /\ buildings' = buildings
          /\ (phase \in InfinitePhases \/ phaseTime < PHASE_DURATIONS[phase])
                => (phase' = phase /\ phaseTime' = phaseTime)
          /\ phase = "idle" => UNCHANGED engine]_vars

\* a zero tick of waveBreaking left its three sprays behind while persons flee
ZeroTickWitness ==
    /\ stalls > 0 /\ ~paused
    /\ phase = "waveBreaking" /\ Len(particles) >= BreakingSprays
    /\ \E i \in 1..Len(people) : people[i].fleeing

----------------------------------------------------------------------------
(* C11 *)

\* C11 as claimed: updateSimulation leaves what its argument refers to (stats,
\* people, vehicles, buildings, debris, earthquake) as it was before the call.
StepLeavesInputIntact ==
    [][Ticked => inputAfter(State, State') = contents(State)]_vars

----------------------------------------------------------------------------
(* C12 *)

\* C12: in an inundation tick every building that is not destroyed and lies
\* behind the water front loses waterDepth x seconds x (magnitudeScale + 0.5)
\* health (here in units of 1/HealthScale), every other building is untouched;
\* a building is destroyed in the tick that takes its health to 0 or below,
\* and that tick adds 5 debris and 1 to buildingsDestroyed for it.
BuildingDamageRule ==
    [][(Ticked /\ ~paused /\ phase' = "inundation") =>
          LET dt == time' - time
              front == townStartX + (phaseTime' * (townEndX - townStartX)) \div 15000
              loss == ((1200 + 70 * (magnitude - 50)) * (magnitude - 30)
                         * ((30000 - phaseTime') \div 500) * (dt \div 500)) \div 8000
              hit == {i \in 1..Len(buildings) :
                         ~buildings[i].destroyed /\ buildings[i].x < front}
              fallen == {i \in hit : buildings'[i].health <= 0}
          IN /\ \A i \in hit :
                   /\ buildings'[i].health = buildings[i].health - loss
                   /\ buildings'[i].destroyed = (i \in fallen)
             /\ \A i \in (1..Len(buildings)) \ hit : buildings'[i] = buildings[i]
             /\ Len(debris') = Len(debris) + 5 * Cardinality(fallen)
             /\ stats'.buildingsDestroyed =
                   stats.buildingsDestroyed + Cardinality(fallen)]_vars

\* one building fell in its first tick under water and left 5 debris, another
\* one is damaged and still stands
BuildingDamageWitness ==
    /\ phase = "inundation" /\ Len(debris) = 5
    /\ \E i \in 1..Len(buildings) : buildings[i].destroyed
    /\ \E i \in 1..Len(buildings) :
          /\ ~buildings[i].destroyed
          /\ 0 < buildings[i].health /\ buildings[i].health < buildings[i].maxHealth

----------------------------------------------------------------------------
\* the persons of ps that left vehicle v
Passengers(ps, v) ==
    {i \in 1..Len(ps) : ps[i].id.prefix = "evacuee" /\ ps[i].id.n = v.id}

\* the vehicles a step evacuates
Emptied == {vi \in 1..Len(vehicles) : ~vehicles[vi].evacuated /\ vehicles'[vi].evacuated}

(* C13: over any sequence of ticks a vehicle is evacuated at most once.  A  *)
(* tick keeps an evacuated vehicle evacuated; after it a vehicle has        *)
(* exactly `occupants` persons in the people collection if it is evacuated  *)
(* and none otherwise; the persons of a vehicle the tick evacuates are      *)
(* neither caught nor survived; the people of before stay in place, and the *)
(* collection grows by exactly the occupants of the vehicles the tick       *)
(* evacuates.                                                               *)
EvacuatedAtMostOnce ==
    [][Ticked =>
        /\ Len(vehicles') = Len(vehicles)
        /\ \A vi \in 1..Len(vehicles) :
              /\ vehicles[vi].evacuated => vehicles'[vi].evacuated
              /\ vehicles'[vi].occupants = vehicles[vi].occupants
              /\ Cardinality(Passengers(people', vehicles[vi])) =
                     IF vehicles'[vi].evacuated THEN vehicles[vi].occupants ELSE 0
              /\ vi \in Emptied =>
                     \A i \in Passengers(people', vehicles[vi]) :
                         ~people'[i].caught /\ ~people'[i].survived
        /\ \A i \in 1..Len(people) : people'[i].id = people[i].id
        /\ Len(people') = Len(people)
               + SeqSum([vi \in 1..Len(vehicles) |->
                            IF vi \in Emptied THEN vehicles[vi].occupants ELSE 0])
    ]_vars

\* both vehicles of the fleet were evacuated, one of them in an earlier tick
\* than the other (its passengers have run further), and ticks have passed since
EvacuatedWitness ==
    /\ phase = "inundation"
    /\ Len(vehicles) = 2
    /\ \A vi \in 1..2 : vehicles[vi].evacuated /\ vehicles[vi].occupants = 2
    /\ Len(people) = 11
    /\ people[8].id.n = vehicles[2].id
    /\ people[10].id.n = vehicles[1].id

----------------------------------------------------------------------------
(* C14: in every reachable state every building has 0 <= health <=          *)
(* maxHealth.                                                               *)
HealthInRange ==
    \A bi \in 1..Len(buildings) :
        0 <= buildings[bi].health /\ buildings[bi].health <= buildings[bi].maxHealth

----------------------------------------------------------------------------
(* C15: during aftermath, whatever the tick length and the speed            *)
(* multiplier, no water-level sample is further from its base level after  *)
(* a tick than it was before it.                                            *)
AftermathRelaxes ==
    [][Ticked /\ phase = "aftermath" =>
        \A i \in 1..Len(waterLevels) :
            Abs(waterLevels'[i].currentLevel - waterLevels'[i].baseLevel)
                <= Abs(waterLevels[i].currentLevel - waterLevels[i].baseLevel)
    ]_vars

----------------------------------------------------------------------------
(* C16: startSimulation(state), from a state of any phase, returns a       *)
(* freshly generated world in phase earthquake with both clocks at 0, the  *)
(* four counters at 0, no debris, no particles, every flag of every        *)
(* person, vehicle and building false, the magnitude of state, and the     *)
(* current fact already taken from the facts of the earthquake phase.      *)
StartGivesFreshRun ==
    [][Start =>
        /\ phase' = "earthquake" /\ time' = 0 /\ phaseTime' = 0
        /\ stats' = ZeroStats
        /\ debris' = <<>> /\ particles' = <<>>
        /\ \A i \in 1..Len(people') :
              ~people'[i].fleeing /\ ~people'[i].caught /\ ~people'[i].survived
        /\ \A i \in 1..Len(vehicles') :
              ~vehicles'[i].evacuated /\ ~vehicles'[i].destroyed
        /\ \A i \in 1..Len(buildings') :
              ~buildings'[i].destroyed /\ buildings'[i].health = buildings'[i].maxHealth
        /\ \E w \in WorldDraws :
              /\ towns' = createTowns(w.towns)
              /\ buildings' = createBuildings(towns', w.buildings)
              /\ vehicles' = createVehicles(towns', w.vehicles)
              /\ people' = createPeople(towns', w.doomed, w.citizens)
              /\ waterLevels' = createWaterLevels
        /\ magnitude' = magnitude
        /\ currentFact' # NoFact /\ currentFact'.phase = "earthquake"
    ]_vars

\* a run that has just been started, over a populated world
StartWitness ==
    /\ phase = "earthquake" /\ time = 0 /\ currentFact # NoFact
    /\ Len(people) > 0 /\ Len(vehicles) > 0 /\ Len(buildings) > 0

----------------------------------------------------------------------------
(* C17: within a run no tick takes one of the flags building.destroyed,    *)
(* vehicle.destroyed, vehicle.evacuated, person.fleeing, person.caught or  *)
(* person.survived from true back to false.                                *)
FlagsStayRaised ==
    [][Ticked =>
        /\ \A i \in 1..Len(buildings) :
              i <= Len(buildings') /\ (buildings[i].destroyed => buildings'[i].destroyed)
        /\ \A i \in 1..Len(vehicles) :
              /\ i <= Len(vehicles')
              /\ vehicles[i].destroyed => vehicles'[i].destroyed
              /\ vehicles[i].evacuated => vehicles'[i].evacuated
        /\ \A i \in 1..Len(people) :
              /\ i <= Len(people')
              /\ people[i].fleeing => people'[i].fleeing
              /\ people[i].caught => people'[i].caught
              /\ people[i].survived => people'[i].survived
    ]_vars

\* every kind of flag is raised, and the run has gone on into aftermath
FlagsWitness ==
    /\ phase = "aftermath" /\ phaseTime > 0
    /\ \E i \in 1..Len(buildings) : buildings[i].destroyed
    /\ \E i \in 1..Len(vehicles) : vehicles[i].destroyed /\ vehicles[i].evacuated
    /\ \E i \in 1..Len(people) : people[i].fleeing /\ people[i].caught
    /\ \E i \in 1..Len(people) : people[i].fleeing /\ people[i].survived

----------------------------------------------------------------------------
(* C18: the water-level sample array has the same length and the same x    *)
(* at every index in every state of a run, from creation through           *)
(* aftermath, and a tick changes nothing of a sample but its currentLevel  *)
(* (and velocity).                                                          *)
SamplesStayPut ==
    [][/\ Len(waterLevels') = Len(createWaterLevels)
       /\ \A i \in 1..Len(waterLevels') : waterLevels'[i].x = createWaterLevels[i].x
       /\ Ticked =>
             /\ Len(waterLevels') = Len(waterLevels)
             /\ \A i \in 1..Len(waterLevels) :
                   [waterLevels'[i] EXCEPT !.currentLevel = 0, !.velocity = 0]
                       = [waterLevels[i] EXCEPT !.currentLevel = 0, !.velocity = 0]
    ]_vars

\* the run is in aftermath, and the wave has left an ocean sample and a town
\* sample away from their base level
SamplesWitness ==
    /\ phase = "aftermath" /\ phaseTime > 0
    /\ \E i, j \in 1..Len(waterLevels) :
          /\ waterLevels[i].x < townStartX /\ waterLevels[j].x > townStartX
          /\ waterLevels[i].currentLevel # waterLevels[i].baseLevel
          /\ waterLevels[j].currentLevel # waterLevels[j].baseLevel

----------------------------------------------------------------------------
\* the text of a person id, as its tokens between the hyphens:
\* `person-doomed-${n}`, `person-atrisk-${n}`, `person-${n}` and
\* `evacuee-${vehicle.id}-${i}` with vehicle.id = `vehicle-${n}`
idText(id) ==
    IF id.prefix = "person-doomed" THEN <<"person", "doomed", id.n>>
    ELSE IF id.prefix = "person-atrisk" THEN <<"person", "atrisk", id.n>>
    ELSE IF id.prefix = "person" THEN <<"person", id.n>>
    ELSE <<"evacuee", "vehicle", id.n, id.sub>>

(* C19: in every reachable state ids are pairwise distinct within the      *)
(* people collection, within the vehicles collection and within the        *)
(* buildings collection, the persons added by vehicle evacuations          *)
(* included.                                                                *)
IdsDistinct ==
    /\ \A i, j \in 1..Len(people) :
          i # j => idText(people[i].id) # idText(people[j].id)
    /\ \A i, j \in 1..Len(vehicles) : i # j => vehicles[i].id # vehicles[j].id
    /\ \A i, j \in 1..Len(buildings) : i # j => buildings[i].id # buildings[j].id

\* two settlements with buildings, a vehicle and people each, and the
\* occupants of both vehicles among the people
IdsWitness ==
    /\ Len(towns) = 2 /\ Len(buildings) > 2 /\ Len(vehicles) = 2
    /\ \A vi \in 1..Len(vehicles) :
          vehicles[vi].evacuated /\ Cardinality(Passengers(people, vehicles[vi])) = 2
    /\ \E i \in 1..Len(people) : people[i].id.prefix = "person-doomed"
    /\ \E i \in 1..Len(people) : people[i].id.prefix = "person-atrisk"
    /\ Cardinality({i \in 1..Len(people) : people[i].id.prefix = "person"}) > 3

----------------------------------------------------------------------------
(* C20: for the default world configuration and every outcome of the       *)
(* random draws, createTowns returns between 1 and 4 settlements, each of  *)
(* width >= 100, each inside the town band [townStartX, townEndX], in      *)
(* order from left to right and no two of them overlapping.                *)
TownsWellPlaced ==
    /\ Len(towns) >= 1 /\ Len(towns) <= 4
    /\ \A i \in 1..Len(towns) :
          /\ towns[i].width >= 100
          /\ townStartX <= towns[i].x
          /\ towns[i].x + towns[i].width <= townEndX
    /\ \A i, j \in 1..Len(towns) :
          i < j => towns[i].x + towns[i].width <= towns[j].x

\* three settlements, the last a city whose width was cut to the room left
TownsWitness ==
    /\ Len(towns) = 3
    /\ towns[3].type = "city" /\ towns[3].width < 350
    /\ towns[3].x + towns[3].width = townEndX - 50

----------------------------------------------------------------------------
(* C21: in every tick of inundation and in every tick of recession, each   *)
(* building that is not destroyed and lies behind the current water front  *)
(* loses waterDepth x elapsedSeconds x (magnitudeScale + 0.5) health (here *)
(* in units of 1/HealthScale).  The recession tick looked at is the first  *)
(* one, of progress 0: its front is townEndX and its depth                 *)
(* (30 + magnitudeScale x 70) x 0.5.                                       *)
BuildingsLoseHealth ==
    [][(Ticked /\ ~paused) =>
          LET dt == time' - time
              front == townStartX + (phaseTime' * (townEndX - townStartX)) \div 15000
              loss == ((1200 + 70 * (magnitude - 50)) * (magnitude - 30)
                         * ((30000 - phaseTime') \div 500) * (dt \div 500)) \div 8000
              backLoss == ((1200 + 70 * (magnitude - 50)) * (magnitude - 30)
                             * (dt \div 500) * 3) \div 800
          IN /\ phase' = "inundation" =>
                   \A i \in 1..Len(buildings) :
                       (~buildings[i].destroyed /\ buildings[i].x < front)
                           => buildings'[i].health = buildings[i].health - loss
             /\ (phase' = "recession" /\ phaseTime' = 0) =>
                   \A i \in 1..Len(buildings) :
                       (~buildings[i].destroyed /\ buildings[i].x < townEndX)
                           => buildings'[i].health = buildings[i].health - backLoss
    ]_vars

----------------------------------------------------------------------------
(* C22: after every inundation tick and after every recession tick, every  *)
(* vehicle whose x is behind that tick's water front is destroyed,         *)
(* evacuated or not.  The front of a recession tick is at most townEndX,   *)
(* so the vehicles behind it are among those with x < townEndX.            *)
VehiclesBehindFrontDestroyed ==
    [][(Ticked /\ ~paused) =>
          LET front == townStartX + (phaseTime' * (townEndX - townStartX)) \div 15000
          IN /\ phase' = "inundation" =>
                   \A i \in 1..Len(vehicles') :
                       vehicles'[i].x < front => vehicles'[i].destroyed
             /\ phase' = "recession" =>
                   \A i \in 1..Len(vehicles') :
                       vehicles'[i].x < townEndX => vehicles'[i].destroyed
    ]_vars

\* an inundation tick has destroyed the evacuated vehicle behind its front and
\* left the one ahead of it
VehiclesWitness ==
    /\ phase = "inundation" /\ phaseTime > 0
    /\ \E i, j \in 1..Len(vehicles) :
          /\ vehicles[i].destroyed /\ vehicles[i].evacuated
          /\ ~vehicles[j].destroyed /\ vehicles[i].x < vehicles[j].x

----------------------------------------------------------------------------
(* C23: in an inundation tick every unresolved person whose x is behind    *)
(* the water front becomes caught, every unresolved person not behind the  *)
(* front whose x is beyond townEndX - 100 becomes survived, a person       *)
(* satisfying neither stays unresolved, and a person already resolved      *)
(* keeps its outcome: a survivor is never turned into a casualty when the  *)
(* front later passes them.  x is the position the tick finds the person   *)
(* at.                                                                      *)
InundationResolves ==
    [][(Ticked /\ ~paused /\ phase' = "inundation") =>
          LET front == townStartX + (phaseTime' * (townEndX - townStartX)) \div 15000
          IN /\ Len(people') = Len(people)
             /\ \A i \in 1..Len(people) :
                   IF Resolved(people[i])
                   THEN /\ people'[i].caught = people[i].caught
                        /\ people'[i].survived = people[i].survived
                   ELSE IF people[i].x < front
                   THEN people'[i].caught /\ ~people'[i].survived
                   ELSE IF people[i].x > townEndX - 100
                   THEN people'[i].survived /\ ~people'[i].caught
                   ELSE ~Resolved(people'[i])
    ]_vars

\* the front of an inundation tick has passed a survivor, who is still one,
\* with a casualty in the same state
InundationWitness ==
    /\ phase = "inundation" /\ phaseTime > 0
    /\ \E i \in 1..Len(people) : people[i].survived /\ people[i].x < waterFront(State)
    /\ \E i \in 1..Len(people) : people[i].caught

----------------------------------------------------------------------------
(* C24: on each tick of a running simulation every person who is fleeing   *)
(* and not caught advances along +x by exactly speed x elapsed seconds,    *)
(* persons who are not fleeing or are caught keep their x, and no person's *)
(* speed changes.  The flags are those the tick leaves the person with.    *)
FleeingAdvance ==
    [][(Ticked /\ ~paused) =>
          \A i \in 1..Len(people) :
              /\ people'[i].speed = people[i].speed
              /\ people'[i].x =
                     IF people'[i].fleeing /\ ~people'[i].caught
                     THEN people[i].x + (people[i].speed * (time' - time)) \div 1000
                     ELSE people[i].x
    ]_vars

----------------------------------------------------------------------------
(* C25: no tick in any phase changes a vehicle's x or y: a vehicle is at   *)
(* its generated position when it is evacuated and when it is destroyed.   *)
VehiclesStayInPlace ==
    [][Ticked =>
          /\ Len(vehicles') = Len(vehicles)
          /\ \A i \in 1..Len(vehicles) :
                vehicles'[i].x = vehicles[i].x /\ vehicles'[i].y = vehicles[i].y
    ]_vars

\* at the end of a run both vehicles are evacuated and destroyed, each at the
\* position createVehicles gave it
VehiclesInPlaceWitness ==
    /\ phase = "aftermath" /\ Len(vehicles) = 2
    /\ \A i \in 1..Len(vehicles) : vehicles[i].evacuated /\ vehicles[i].destroyed
    /\ \E w \in FleetWorlds :
          \A i \in 1..Len(vehicles) :
              /\ vehicles[i].x = createVehicles(towns, w.vehicles)[i].x
              /\ vehicles[i].y = createVehicles(towns, w.vehicles)[i].y

----------------------------------------------------------------------------
(* C26: after any waveShoaling tick every normal person, evacuees          *)
(* included, is fleeing; every at-risk person is fleeing if the progress   *)
(* of that tick exceeds 0.3, and every doomed person if it exceeds 0.7.    *)
ShoalingFlight ==
    [][(Ticked /\ ~paused /\ phase' = "waveShoaling") =>
          \A i \in 1..Len(people') :
              IF people'[i].id.prefix = "person-doomed"
              THEN (10 * phaseTime' > 7 * 8000) => people'[i].fleeing
              ELSE IF people'[i].id.prefix = "person-atrisk"
              THEN (10 * phaseTime' > 3 * 8000) => people'[i].fleeing
              ELSE people'[i].fleeing
    ]_vars

\* half way through shoaling: the at-risk person and the evacuees are
\* fleeing, the doomed person is not yet
ShoalingWitness ==
    /\ phase = "waveShoaling" /\ phaseTime = 4000
    /\ \E i \in 1..Len(people) : people[i].id.prefix = "person-doomed" /\ ~people[i].fleeing
    /\ \E i \in 1..Len(people) : people[i].id.prefix = "person-atrisk" /\ people[i].fleeing
    /\ \E i \in 1..Len(people) : people[i].id.prefix = "evacuee" /\ people[i].fleeing
    /\ \E i \in 1..Len(people) : people[i].id.prefix = "person" /\ people[i].fleeing

----------------------------------------------------------------------------
(* C27: a doomed person is not fleeing in any state whose phase is idle,   *)
(* earthquake, waveFormation or waveTravel, nor in a waveShoaling state    *)
(* whose progress is at most 0.7 (the progress of a phase only grows, so   *)
(* such a state was reached through ticks of progress <= 0.7 only): no     *)
(* random trigger ever applies to a doomed person.                         *)
DoomedStayPut ==
    (\/ phase \in {"idle", "earthquake", "waveFormation", "waveTravel"}
     \/ phase = "waveShoaling" /\ 10 * phaseTime <= 7 * 8000)
    => \A i \in 1..Len(people) :
           people[i].id.prefix = "person-doomed" => ~people[i].fleeing

\* late in waveTravel everyone whose trigger can fire is fleeing, the
\* doomed person is not
DoomedWitness ==
    /\ phase = "waveTravel" /\ phaseTime = PHASE_DURATIONS["waveTravel"]
    /\ \E i \in 1..Len(people) : people[i].id.prefix = "person-doomed"
    /\ \A i \in 1..Len(people) :
          people[i].fleeing = (people[i].id.prefix # "person-doomed")

----------------------------------------------------------------------------
(* C28: no vehicle is evacuated before the progress of waveTravel exceeds  *)
(* 0.3; in the state the first waveShoaling tick returns (and so in every  *)
(* waveShoaling state) every vehicle is evacuated; and every person an     *)
(* evacuation has spawned is fleeing, from the state that first holds it.  *)
EvacuationTiming ==
    /\ (\/ phase \in {"idle", "earthquake", "waveFormation"}
        \/ phase = "waveTravel" /\ 10 * phaseTime <= 3 * 12000)
       => /\ \A i \in 1..Len(vehicles) : ~vehicles[i].evacuated
          /\ \A i \in 1..Len(people) : people[i].id.prefix # "evacuee"
    /\ phase = "waveShoaling" => \A i \in 1..Len(vehicles) : vehicles[i].evacuated
    /\ \A i \in 1..Len(people) : people[i].id.prefix = "evacuee" => people[i].fleeing

\* the state of the first waveShoaling tick: the second vehicle was left
\* during waveTravel, the first one is emptied by this tick
EvacuationWitness ==
    /\ phase = "waveShoaling" /\ phaseTime = 0
    /\ Len(vehicles) = 2 /\ Len(people) = 11
    /\ people[8].id.prefix = "evacuee" /\ people[8].id.n = vehicles[2].id
    /\ people[10].id.prefix = "evacuee" /\ people[10].id.n = vehicles[1].id

\* C29: every particle of a state has 0 < life <= maxLife, and a tick whose
\* scaled elapsed time is at least the longest particle life returns a state
\* without particles: those it aged and those it spawned are all dropped
ParticlesAlive ==
    /\ [](\A i \in 1..Len(particles) :
            0 < particles[i].life /\ particles[i].life <= particles[i].maxLife)
    /\ [][Ticked /\ time' - time >= SprayLife => particles' = <<>>]_vars

\* a frame shorter than the life of a spray particle has gone through wave
\* breaking: the sprays it spawned are in the state, aged by the frame
ParticlesWitness ==
    /\ phase = "waveBreaking" /\ phaseTime > 0
    /\ Len(particles) >= BreakingSprays
    /\ \E i \in 1..Len(particles) :
          /\ particles[i].type = "spray"
          /\ 0 < particles[i].life /\ particles[i].life < particles[i].maxLife

\* C30: debris is never removed within a run: every state holds
\* DebrisPerBuilding items of debris for each building counted in
\* stats.buildingsDestroyed, and a tick keeps every item it found, in place
\* in the list
DebrisPersists ==
    /\ [](Len(debris) = DebrisPerBuilding * stats.buildingsDestroyed)
    /\ [][Ticked => /\ Len(debris') >= Len(debris)
                    /\ phase' # "aftermath" =>
                           SubSeq(debris', 1, Len(debris)) = debris]_vars

\* the aftermath has ticked over the debris of a destroyed building, which has
\* come to rest on the ground
DebrisWitness ==
    /\ phase = "aftermath" /\ phaseTime > 0
    /\ stats.buildingsDestroyed >= 1
    /\ Len(debris) >= DebrisPerBuilding
    /\ \E i \in 1..Len(debris) : debris[i].y = groundLevel * 1000

\* C31: from the tick after it is spawned, a debris item falls on every tick
\* of inundation, recession and aftermath: the tick leaves it where
\* fallDebris takes it (gravity, integration, bounce at ground level)
DebrisFalls ==
    [][Ticked /\ time' > time
          /\ phase' \in {"inundation", "recession", "aftermath"}
          => \A i \in 1..Len(debris) :
                 /\ i <= Len(debris')
                 /\ debris'[i] = fallDebris(debris[i], time' - time)]_vars

\* C32: in a started run that keeps being ticked, unpaused, with frames that
\* are bounded below, every phase from earthquake to recession is followed by
\* its successor, ticks move the phase by at most one place in the fixed
\* order, so aftermath is reached through all the phases in order, and a tick
\* in aftermath stays in aftermath
RunReachesAftermath ==
    /\ \A k \in 2..(Len(Phases) - 1) : (phase = Phases[k]) ~> (phase = Phases[k + 1])
    /\ (phase = "earthquake") ~> [](phase = "aftermath")
    /\ [][Ticked => phase' \in {phase, getNextPhase(phase)}]_vars

\* the run has come to aftermath and has been ticked there
RunEndWitness ==
    /\ phase = "aftermath" /\ phaseTime > 0
    /\ time >= 67000

AllFleeAfterShoaling ==
    phase \in {"waveBreaking", "inundation", "recession", "aftermath"} =>
        \A i \in 1..Len(people) : people[i].fleeing

\* wave breaking with a doomed person, an at-risk person and an evacuee
AllFleeWitness ==
    /\ phase = "waveBreaking"
    /\ \E i \in 1..Len(people) : IsDoomed(people[i]) /\ people[i].fleeing
    /\ \E i \in 1..Len(people) : IsAtRisk(people[i]) /\ people[i].fleeing
    /\ \E i \in 1..Len(people) : people[i].id.prefix = "evacuee" /\ people[i].fleeing

\* C35: in every state a destroyed vehicle is an evacuated one: no vehicle is
\* destroyed with its occupants inside, so evacuateVehicle never meets a
\* vehicle that is destroyed and not evacuated
DestroyedWereEvacuated ==
    \A i \in 1..Len(vehicles) : vehicles[i].destroyed => vehicles[i].evacuated

\* the water has destroyed every vehicle of a fleet of two, and every
\* occupant is among the people
DestroyedWitness ==
    /\ Len(vehicles) >= 2
    /\ \A i \in 1..Len(vehicles) :
          /\ vehicles[i].destroyed /\ vehicles[i].evacuated
          /\ Cardinality(Passengers(people, vehicles[i])) = vehicles[i].occupants
    /\ stats.vehiclesDestroyed = Len(vehicles)

\* C36: a tick that changes the phase returns phaseTime = 0, whatever the
\* elapsed time and whatever the old phase had run over its duration, while
\* time grows by the whole scaled elapsed time; a tick that keeps the phase
\* adds the same amount to both clocks; so time >= phaseTime >= 0 in every
\* state and no tick takes time back
TransitionDropsPhaseTime ==
    /\ [](time >= phaseTime /\ phaseTime >= 0)
    /\ [][Ticked =>
              /\ time' >= time
              /\ paused \/ time' - time \in {d * speed : d \in SpikeTimes}
              /\ IF phase' # phase
                 THEN phaseTime' = 0
                 ELSE phaseTime' - phaseTime = time' - time]_vars

\* a frame of 32000 ms has run earthquake far over its 8000 ms and the next
\* one has made the transition: 64000 ms on the clock, none in the phase
TransitionWitness ==
    /\ phase = "waveFormation" /\ phaseTime = 0
    /\ time = 64000

\* C37: whatever the elapsed times, a tick leaves no building with more
\* health than it had
HealthNeverGrows ==
    [][Ticked =>
          /\ Len(buildings') = Len(buildings)
          /\ \A i \in 1..Len(buildings) : buildings'[i].health <= buildings[i].health]_vars

\* the step is a frame of the host loop: an updateSimulation call, or the
\* first frame after mount or reset
FrameStep == Ticked \/ (lastTimeRef = NoTimestamp /\ lastTimeRef' # NoTimestamp)

\* C38: a frame that finds the state paused moves neither clock, and every
\* other frame, the first one after a resume included, moves time by one
\* frame interval x speed (by nothing if it is the first frame after mount or
\* reset) and phaseTime by as much, or to 0: the time spent paused is never
\* credited
PausedTimeNotCredited ==
    [][FrameStep =>
          IF paused
          THEN time' = time /\ phaseTime' = phaseTime
          ELSE /\ IF lastTimeRef = NoTimestamp
                  THEN time' = time
                  ELSE time' - time \in {i * speed : i \in HostIntervals}
               /\ phaseTime' \in {0, phaseTime + (time' - time)}]_vars

\* a run in which a frame has found the state paused and which has been
\* resumed, one frame interval on its clock
ResumedWitness ==
    /\ ~paused /\ stalls > 0
    /\ lastTimeRef # NoTimestamp
    /\ phase = "earthquake" /\ time = 4000 /\ phaseTime = 4000

\* C39: startSimulation takes the magnitude and the camera from the previous
\* state and nothing else of its controls: the started run has speed 1 and
\* is not paused, whatever the speed and the pause were
StartResetsControls ==
    [][Start =>
          /\ speed' = 1 /\ paused' = FALSE
          /\ magnitude' = magnitude
          /\ earthquake'.magnitude = magnitude
          /\ camera' = camera]_vars

\* a run just started with the camera where the user had put it, at speed 1
ControlsWitness ==
    /\ phase = "earthquake" /\ time = 0 /\ currentFact # NoFact
    /\ speed = 1 /\ ~paused
    /\ camera \in Cameras

====
